---- MODULE Spec2Model ----
(***************************************************************************)
(* Booking marketplace: the row-level-security policies of the database    *)
(* schema (the SQL at the end of ListingDetail.tsx) and the page handlers  *)
(* that call the policy-gated data API (supabase.from(...).insert /        *)
(* update / select).  Every request is one SQL statement, executed         *)
(* atomically by the database under the caller's auth.uid().               *)
(***************************************************************************)
EXTENDS Integers, FiniteSets, Sequences, TLC

\* ---------------------------------------------------------------- bounds
MaxListings == 2
MaxBookings == 1

\* ------------------------------------------------------- schema constants
Users == {"u1", "u2", "u3"}
app_role == {"admin", "subadmin", "user"}
booking_status == {"pending", "accepted", "rejected"}
NULL == "null"
NoError == "none"
PermissionDenied == "PermissionDenied"
ForeignKeyViolation == "ForeignKeyViolation"
UniqueViolation == "UniqueViolation"
NotNullViolation == "NotNullViolation"

VARIABLES
  authUsers,      \* auth.users: the principals the identity provider knows
  profiles,       \* public.profiles rows (user_id is UNIQUE)
  user_roles,     \* public.user_roles rows, UNIQUE(user_id, role)
  listings,       \* public.listings rows
  bookings,       \* public.bookings rows
  nextListingId,  \* stands for gen_random_uuid() of listings.id
  nextBookingId,  \* stands for gen_random_uuid() of bookings.id
  dash,           \* Dashboard component state per signed-in principal
  detail,         \* ListingDetail component state (listing) per principal
  req,            \* the awaited update request of handleBookingAction
  last            \* the last data-API request and its response

vars == <<authUsers, profiles, user_roles, listings, bookings,
          nextListingId, nextBookingId, dash, detail, req, last>>

\* ------------------------------------------------------------ role store
has_role(uid, role) ==
  \E r \in user_roles : r.user_id = uid /\ r.role = role

\* faulty variant: user is ranked above subadmin
RoleRank_Mut(role) ==
  CASE role = "admin" -> 1
    [] role = "subadmin" -> 3
    [] role = "user" -> 2

RoleRank(role) ==
  CASE role = "admin" -> 1
    [] role = "subadmin" -> 2
    [] role = "user" -> 3

get_user_role(uid) ==
  LET rs == {r.role : r \in {x \in user_roles : x.user_id = uid}}
  IN  IF rs = {} THEN NULL
      ELSE CHOOSE r \in rs : \A o \in rs : RoleRank(r) <= RoleRank(o)

\* ------------------------------------------------- RLS policies: listings
\* faulty variant: the policy does not look at is_active
AnyoneCanViewActiveListings_Mut(uid, l) == TRUE

AnyoneCanViewActiveListings(uid, l) == l.is_active = TRUE

\* faulty variant: subadmins manage every listing
OwnersCanManageTheirListings_Mut(uid, l) ==
  uid = l.owner_id \/ has_role(uid, "subadmin")

OwnersCanManageTheirListings(uid, l) == uid = l.owner_id

AdminsCanManageAllListings(uid, l) == has_role(uid, "admin")

\* permissive policies are OR-ed; FOR ALL policies apply to every command
ListingsSelectUsing(uid, l) ==
  \/ AnyoneCanViewActiveListings(uid, l)
  \/ OwnersCanManageTheirListings(uid, l)
  \/ AdminsCanManageAllListings(uid, l)

\* FOR ALL ... USING without WITH CHECK: USING is also the check on new rows
ListingsWriteUsing(uid, l) ==
  \/ OwnersCanManageTheirListings(uid, l)
  \/ AdminsCanManageAllListings(uid, l)

\* ------------------------------------------------- RLS policies: bookings
UsersCanViewTheirOwnBookings(uid, b) == uid = b.user_id

\* the sub-select on listings runs under the caller's listings policies
ListingOwnersCanViewBookingsForTheirListings(uid, b) ==
  \E l \in listings :
    /\ ListingsSelectUsing(uid, l)
    /\ l.id = b.listing_id
    /\ l.owner_id = uid

\* faulty variant: subadmins see every booking too
AdminsCanViewAllBookings_Mut(uid, b) ==
  has_role(uid, "admin") \/ has_role(uid, "subadmin")

AdminsCanViewAllBookings(uid, b) == has_role(uid, "admin")

BookingsSelectUsing(uid, b) ==
  \/ UsersCanViewTheirOwnBookings(uid, b)
  \/ ListingOwnersCanViewBookingsForTheirListings(uid, b)
  \/ AdminsCanViewAllBookings(uid, b)

\* faulty variant: the insert check only asks that the requester exists
UsersCanCreateBookings_Mut(uid, b) == b.user_id \in authUsers

UsersCanCreateBookings(uid, b) == uid = b.user_id

\* faulty variant: the update policy also admits the requester of the booking
ListingOwnersCanUpdateBookingsForTheirListings_Mut(uid, b) ==
  \/ uid = b.user_id
  \/ \E l \in listings :
       /\ ListingsSelectUsing(uid, l)
       /\ l.id = b.listing_id
       /\ l.owner_id = uid

ListingOwnersCanUpdateBookingsForTheirListings(uid, b) ==
  \E l \in listings :
    /\ ListingsSelectUsing(uid, l)
    /\ l.id = b.listing_id
    /\ l.owner_id = uid

AdminsCanUpdateAllBookings(uid, b) == has_role(uid, "admin")

BookingsUpdateUsing(uid, b) ==
  \/ ListingOwnersCanUpdateBookingsForTheirListings(uid, b)
  \/ AdminsCanUpdateAllBookings(uid, b)

\* ----------------------------------------------- RLS policies: user_roles
AdminsCanViewAllUserRoles(uid, r) == has_role(uid, "admin")

UsersCanViewTheirOwnRoles(uid, r) == uid = r.user_id

\* faulty variant: principals manage their own role rows
AdminsCanManageUserRoles_Mut(uid, r) ==
  has_role(uid, "admin") \/ uid = r.user_id

AdminsCanManageUserRoles(uid, r) == has_role(uid, "admin")

UserRolesSelectUsing(uid, r) ==
  \/ AdminsCanViewAllUserRoles(uid, r)
  \/ UsersCanViewTheirOwnRoles(uid, r)
  \/ AdminsCanManageUserRoles(uid, r)

\* ------------------------------------------------------ requests, replies
\* what a request was (operation, caller, the id and user_id it names; for
\* user_roles the id is the rank of the role it names) and what it returned
\* (error, ids of the listing or booking rows it returned or wrote)
Response(op, actor, id, user_id, err, rows) ==
  [op |-> op, actor |-> actor, id |-> id, user_id |-> user_id,
   err |-> err, rows |-> rows]

\* the row an INSERT payload produces: given columns, defaults for the rest
RowOf(id, payload, defaults) ==
  [c \in (DOMAIN payload) \cup (DOMAIN defaults) \cup {"id"} |->
     IF c = "id" THEN id
     ELSE IF c \in DOMAIN payload THEN payload[c]
     ELSE defaults[c]]

\* the row an UPDATE ... SET patch produces
Patched(row, patch) ==
  [c \in DOMAIN row |-> IF c \in DOMAIN patch THEN patch[c] ELSE row[c]]

\* ---------------------------------------------------------- bookings rows
\* column DEFAULTs of CREATE TABLE public.bookings
BookingDefaults ==
  [guests |-> 1, status |-> "pending", special_requests |-> NULL,
   admin_notes |-> NULL]

\* REFERENCES auth.users(id) / REFERENCES public.listings(id)
BookingForeignKeys(b) ==
  /\ b.user_id \in authUsers
  /\ \E l \in listings : l.id = b.listing_id

\* faulty variant: a booking that overlaps one of the same listing is refused
InsertBookingError_Mut(uid, row) ==
  IF ~UsersCanCreateBookings(uid, row) THEN PermissionDenied
  ELSE IF ~BookingForeignKeys(row) THEN ForeignKeyViolation
  ELSE IF \E b \in bookings : /\ b.listing_id = row.listing_id
                               /\ b.check_in < row.check_out
                               /\ row.check_in < b.check_out
  THEN UniqueViolation
  ELSE NoError

\* the error of supabase.from('bookings').insert(row) as principal uid
InsertBookingError(uid, row) ==
  IF ~UsersCanCreateBookings(uid, row) THEN PermissionDenied
  ELSE IF ~BookingForeignKeys(row) THEN ForeignKeyViolation
  ELSE NoError

\* supabase.from('bookings').insert(payload) as principal uid
InsertBooking(uid, payload) ==
  LET row == RowOf(nextBookingId, payload, BookingDefaults)
      err == InsertBookingError(uid, row)
  IN  /\ nextBookingId <= MaxBookings
      /\ IF err = NoError
         THEN /\ bookings' = bookings \cup {row}
              /\ nextBookingId' = nextBookingId + 1
         ELSE UNCHANGED <<bookings, nextBookingId>>
      /\ last' = Response("insertBooking", uid, nextBookingId,
                          payload.user_id, err,
                          IF err = NoError THEN {nextBookingId} ELSE {})

\* supabase.from('bookings').update(patch).eq('id', id) as principal uid:
\* the rows the caller may see and update are rewritten; a rewritten row
\* must pass the update policies again and keep its foreign keys
UpdateBooking(uid, id, patch) ==
  LET target == {b \in bookings : /\ b.id = id
                                  /\ BookingsSelectUsing(uid, b)
                                  /\ BookingsUpdateUsing(uid, b)}
      err == IF \E b \in target : ~BookingsUpdateUsing(uid, Patched(b, patch))
             THEN PermissionDenied
             ELSE IF \E b \in target : ~BookingForeignKeys(Patched(b, patch))
             THEN ForeignKeyViolation
             ELSE NoError
  IN  /\ bookings' = IF err = NoError
                     THEN (bookings \ target)
                            \cup {Patched(b, patch) : b \in target}
                     ELSE bookings
      /\ last' = Response("updateBooking", uid, id, NULL, err,
                          IF err = NoError THEN {b.id : b \in target} ELSE {})

\* supabase.from('bookings').select('*') as principal uid
SelectBookings(uid, rows) == {b \in rows : BookingsSelectUsing(uid, b)}

\* supabase.from('listings').select('*') as principal uid
SelectListings(uid) == {l \in listings : ListingsSelectUsing(uid, l)}

\* ---------------------------------------------------------- listings rows
\* column DEFAULTs of CREATE TABLE public.listings
ListingDefaults == [is_active |-> TRUE]

\* REFERENCES auth.users(id)
ListingForeignKeys(l) == l.owner_id \in authUsers

\* supabase.from('listings').insert([payload]) as principal uid
InsertListing(uid, payload) ==
  LET row == RowOf(nextListingId, payload, ListingDefaults)
      err == IF ~ListingsWriteUsing(uid, row) THEN PermissionDenied
             ELSE IF ~ListingForeignKeys(row) THEN ForeignKeyViolation
             ELSE NoError
  IN  /\ nextListingId <= MaxListings
      /\ IF err = NoError
         THEN /\ listings' = listings \cup {row}
              /\ nextListingId' = nextListingId + 1
         ELSE UNCHANGED <<listings, nextListingId>>
      /\ last' = Response("insertListing", uid, nextListingId,
                          payload.owner_id, err,
                          IF err = NoError THEN {nextListingId} ELSE {})

\* supabase.from('listings').update(patch).eq('id', id) as principal uid
UpdateListing(uid, id, patch) ==
  LET target == {l \in listings : /\ l.id = id
                                  /\ ListingsSelectUsing(uid, l)
                                  /\ ListingsWriteUsing(uid, l)}
      err == IF \E l \in target : ~ListingsWriteUsing(uid, Patched(l, patch))
             THEN PermissionDenied
             ELSE IF \E l \in target : ~ListingForeignKeys(Patched(l, patch))
             THEN ForeignKeyViolation
             ELSE NoError
  IN  /\ listings' = IF err = NoError
                     THEN (listings \ target)
                            \cup {Patched(l, patch) : l \in target}
                     ELSE listings
      /\ last' = Response("updateListing", uid, id, NULL, err,
                          IF err = NoError THEN {l.id : l \in target} ELSE {})

\* supabase.from('listings').delete().eq('id', id) as principal uid;
\* bookings.listing_id is ON DELETE CASCADE
DeleteListing(uid, id) ==
  LET target == {l \in listings : /\ l.id = id
                                  /\ ListingsSelectUsing(uid, l)
                                  /\ ListingsWriteUsing(uid, l)}
  IN  /\ listings' = listings \ target
      /\ bookings' = {b \in bookings :
                        ~\E l \in target : l.id = b.listing_id}
      /\ last' = Response("deleteListing", uid, id, NULL, NoError,
                          {l.id : l \in target})

\* -------------------------------------------------------- user_roles rows
\* faulty variant: the insert does not check UNIQUE(user_id, role)
InsertRole_Mut(uid, target, role) ==
  LET row == [user_id |-> target, role |-> role]
      err == IF ~AdminsCanManageUserRoles(uid, row) THEN PermissionDenied
             ELSE IF target \notin authUsers THEN ForeignKeyViolation
             ELSE NoError
  IN  /\ user_roles' = IF err = NoError THEN user_roles \cup {row}
                       ELSE user_roles
      /\ last' = Response("insertRole", uid, RoleRank(role), target, err, {})

\* supabase.from('user_roles').insert({user_id, role}) as principal uid
InsertRole(uid, target, role) ==
  LET row == [user_id |-> target, role |-> role]
      err == IF ~AdminsCanManageUserRoles(uid, row) THEN PermissionDenied
             ELSE IF target \notin authUsers THEN ForeignKeyViolation
             ELSE IF row \in user_roles THEN UniqueViolation
             ELSE NoError
  IN  /\ user_roles' = IF err = NoError THEN user_roles \cup {row}
                       ELSE user_roles
      /\ last' = Response("insertRole", uid, RoleRank(role), target, err, {})

\* supabase.from('user_roles').delete().eq('user_id', ..).eq('role', ..)
DeleteRole(uid, target, role) ==
  LET rows == {r \in user_roles : /\ r.user_id = target
                                  /\ r.role = role
                                  /\ UserRolesSelectUsing(uid, r)
                                  /\ AdminsCanManageUserRoles(uid, r)}
  IN  /\ user_roles' = user_roles \ rows
      /\ last' = Response("deleteRole", uid, RoleRank(role), target,
                          NoError, {})

\* ------------------------------------------------------------- profiles
UsersCanInsertTheirOwnProfile(uid, p) == uid = p.user_id

\* the constraints of public.profiles on a new row
InsertProfileError(p) ==
  IF p.email = NULL THEN NotNullViolation
  ELSE IF p.user_id \notin authUsers THEN ForeignKeyViolation
  ELSE IF \E o \in profiles : o.user_id = p.user_id THEN UniqueViolation
  ELSE NoError

\* the row a payload becomes; id stands for gen_random_uuid() (no profile
\* row is ever deleted)
ProfileRow(payload) ==
  [id |-> Cardinality(profiles) + 1, user_id |-> payload.user_id,
   email |-> payload.email]

\* supabase.from('profiles').insert(payload) as principal uid
InsertProfile(uid, payload) ==
  LET p == ProfileRow(payload)
      err == IF ~UsersCanInsertTheirOwnProfile(uid, p) THEN PermissionDenied
             ELSE InsertProfileError(p)
  IN  /\ profiles' = IF err = NoError THEN profiles \cup {p} ELSE profiles
      /\ last' = Response("insertProfile", uid, 0, payload.user_id, err, {})

\* the error that aborts handle_new_user for the auth.users row new, run as
\* SECURITY DEFINER right after the row was inserted
handle_new_user_error(new) ==
  IF new.email = NULL THEN NotNullViolation
  ELSE IF \E o \in profiles : o.user_id = new.id THEN UniqueViolation
  ELSE IF [user_id |-> new.id, role |-> "user"] \in user_roles
  THEN UniqueViolation
  ELSE NoError

\* faulty variant: the trigger does not insert the default role
handle_new_user_Mut(new) ==
  /\ profiles' = IF handle_new_user_error(new) = NoError
                 THEN profiles
                        \cup {ProfileRow([user_id |-> new.id,
                                          email |-> new.email])}
                 ELSE profiles
  /\ user_roles' = user_roles

\* the on_auth_user_created trigger: runs inside the sign-up transaction, so
\* an error in either insert leaves neither row
handle_new_user(new) ==
  /\ profiles' = IF handle_new_user_error(new) = NoError
                 THEN profiles
                        \cup {ProfileRow([user_id |-> new.id,
                                          email |-> new.email])}
                 ELSE profiles
  /\ user_roles' = IF handle_new_user_error(new) = NoError
                   THEN user_roles \cup {[user_id |-> new.id, role |-> "user"]}
                   ELSE user_roles

\* faulty variant: the bookings of the principal's listings are kept
DeleteUser_Mut(u) ==
  /\ u \in authUsers
  /\ authUsers' = authUsers \ {u}
  /\ profiles' = {p \in profiles : p.user_id # u}
  /\ user_roles' = {r \in user_roles : r.user_id # u}
  /\ listings' = {l \in listings : l.owner_id # u}
  /\ bookings' = {b \in bookings : b.user_id # u}
  /\ last' = Response("deleteUser", NULL, 0, u, NoError,
                      {b.id : b \in bookings \ bookings'})
  /\ UNCHANGED <<nextListingId, nextBookingId, dash, detail, req>>

\* the row of principal u is deleted from auth.users: every REFERENCES
\* auth.users(id) is ON DELETE CASCADE, and so is bookings.listing_id for
\* the listings that go with it
DeleteUser(u) ==
  /\ u \in authUsers
  /\ authUsers' = authUsers \ {u}
  /\ profiles' = {p \in profiles : p.user_id # u}
  /\ user_roles' = {r \in user_roles : r.user_id # u}
  /\ listings' = {l \in listings : l.owner_id # u}
  /\ bookings' = {b \in bookings :
                    /\ b.user_id # u
                    /\ \E l \in listings' : l.id = b.listing_id}
  /\ last' = Response("deleteUser", NULL, 0, u, NoError,
                      {b.id : b \in bookings \ bookings'})
  /\ UNCHANGED <<nextListingId, nextBookingId, dash, detail, req>>

\* ------------------------------------------------------------ AuthContext
\* the role the pages obtain from useAuth(): the caller's effective role
userRole(uid) == get_user_role(uid)

isAdmin(uid) == userRole(uid) = "admin"

isSubAdmin(uid) == userRole(uid) = "subadmin"

\* ---------------------------------------------------------- Home.tsx page
\* fetchListings of the public home page; uid is NULL for a visitor who is
\* not signed in
fetchListings(uid) ==
  /\ uid \in authUsers \cup {NULL}
  /\ last' = Response("fetchListings", uid, 0, NULL, NoError,
                      {l.id : l \in {x \in SelectListings(uid) :
                                       x.is_active = TRUE}})
  /\ UNCHANGED <<authUsers, profiles, user_roles, listings, bookings,
                 nextListingId, nextBookingId, dash, detail, req>>

\* ------------------------------------------------- ListingDetail.tsx page
\* useState<Listing | null>(null)
NoListing == [loaded |-> FALSE]

Abs(n) == IF n < 0 THEN 0 - n ELSE n

\* 1000 * 60 * 60 * 24
MsPerDay == 86400000

\* new Date(d).getTime() of a 'YYYY-MM-DD' value: UTC midnight of the day;
\* dates are day numbers
getTime(d) == d * MsPerDay

\* Math.ceil(a / b) for a >= 0, b > 0
Ceil(a, b) == (a + b - 1) \div b

calculateTotalPrice(listing, checkIn, checkOut) ==
  LET startDate == getTime(checkIn)
      endDate == getTime(checkOut)
      diffTime == Abs(endDate - startDate)
      diffDays == Ceil(diffTime, MsPerDay)
  IN  diffDays * listing.price

\* faulty variant: the query has no is_active filter
fetchListing_Mut(uid, id) ==
  {l \in listings : l.id = id /\ ListingsSelectUsing(uid, l)}

\* fetchListing: the row is read with is_active = true
fetchListing(uid, id) ==
  {l \in listings :
     l.id = id /\ l.is_active = TRUE /\ ListingsSelectUsing(uid, l)}

\* the error of .single() when the query returns no row
NoRows == "PGRST116"

\* the page is opened for listing id by a signed-in principal: the effect
\* calls fetchListing; on success the row is kept, on error the page shows
\* the toast and navigates to '/'
ListingDetail(uid, id) ==
  LET data == fetchListing(uid, id)
  IN  /\ uid \in authUsers
      /\ detail' = [detail EXCEPT ![uid] =
                      IF data = {} THEN NoListing
                      ELSE [loaded |-> TRUE,
                            listing |-> CHOOSE l \in data : TRUE]]
      /\ last' = Response("fetchListing", uid, id, NULL,
                          IF data = {} THEN NoRows ELSE NoError,
                          {l.id : l \in data})
      /\ UNCHANGED <<authUsers, profiles, user_roles, listings, bookings,
                     nextListingId, nextBookingId, dash, req>>

\* checkIn / checkOut when no date was picked: useState('')
NoDate == 0

\* the toasts of handleBooking's two early returns
SignInRequired == "Please sign in to make a booking"
DatesRequired == "Please select check-in and check-out dates"

\* faulty variant: the dates are not required
handleBooking_Mut(user, listing, checkIn, checkOut, guests, specialRequests) ==
  /\ IF user = NULL \/ listing = NoListing
     THEN /\ last' = Response("handleBooking", user, 0, NULL,
                              SignInRequired, {})
          /\ UNCHANGED <<bookings, nextBookingId, detail>>
     ELSE /\ user \in authUsers
          /\ InsertBooking(user,
               [user_id |-> user, listing_id |-> listing.id,
                check_in |-> checkIn, check_out |-> checkOut,
                guests |-> guests,
                total_price |-> calculateTotalPrice(listing, checkIn, checkOut),
                special_requests |-> specialRequests])
          /\ detail' = IF last'.err = NoError
                       THEN [detail EXCEPT ![user] = NoListing]
                       ELSE detail
  /\ UNCHANGED <<authUsers, profiles, user_roles, listings, nextListingId,
                 dash, req>>

\* handleBooking: user is NULL when nobody is signed in, listing is the row
\* the page holds (NoListing when none), a date is NoDate when not picked;
\* after a successful insert the page is left
handleBooking(user, listing, checkIn, checkOut, guests, specialRequests) ==
  /\ IF user = NULL \/ listing = NoListing
     THEN /\ last' = Response("handleBooking", user, 0, NULL,
                              SignInRequired, {})
          /\ UNCHANGED <<bookings, nextBookingId, detail>>
     ELSE IF checkIn = NoDate \/ checkOut = NoDate
     THEN /\ last' = Response("handleBooking", user, 0, NULL,
                              DatesRequired, {})
          /\ UNCHANGED <<bookings, nextBookingId, detail>>
     ELSE /\ user \in authUsers
          /\ InsertBooking(user,
               [user_id |-> user, listing_id |-> listing.id,
                check_in |-> checkIn, check_out |-> checkOut,
                guests |-> guests,
                total_price |-> calculateTotalPrice(listing, checkIn, checkOut),
                special_requests |-> specialRequests])
          /\ detail' = IF last'.err = NoError
                       THEN [detail EXCEPT ![user] = NoListing]
                       ELSE detail
  /\ UNCHANGED <<authUsers, profiles, user_roles, listings, nextListingId,
                 dash, req>>

\* ------------------------------------------------------ MyBookings page
\* .order('created_at', { ascending: false }): created_at is now() at the
\* insert, so the ids, given out in increasing order, order the rows as
\* created_at does; the result is the sequence of the rows' ids
RECURSIVE OrderByCreatedAtDesc(_)
OrderByCreatedAtDesc(rows) ==
  IF rows = {} THEN <<>>
  ELSE LET newest == CHOOSE x \in rows : \A y \in rows : y.id <= x.id
       IN  <<newest.id>> \o OrderByCreatedAtDesc(rows \ {newest})

\* faulty variant: the query has no user_id filter
MyBookingsQuery_Mut(uid) == SelectBookings(uid, bookings)

\* from('bookings').select(..., listing:listings(...)).eq('user_id', uid);
\* the embedded listing is a left join and drops no booking
MyBookingsQuery(uid) ==
  {b \in SelectBookings(uid, bookings) : b.user_id = uid}

\* fetchBookings of a signed-in principal
fetchBookings(uid) ==
  /\ uid \in authUsers
  /\ last' = Response("fetchBookings", uid, 0, NULL, NoError,
                      OrderByCreatedAtDesc(MyBookingsQuery(uid)))
  /\ UNCHANGED <<authUsers, profiles, user_roles, listings, bookings,
                 nextListingId, nextBookingId, dash, detail, req>>

\* ------------------------------------------------------ Dashboard page
RECURSIVE SumTotalPrice(_)
SumTotalPrice(rows) ==
  IF rows = {} THEN 0
  ELSE LET b == CHOOSE x \in rows : TRUE
       IN  b.total_price + SumTotalPrice(rows \ {b})

\* faulty variant: the revenue counts accepted bookings only
Stats_Mut(listingsData, bookingsData) ==
  [totalListings |-> Cardinality(listingsData),
   totalBookings |-> Cardinality(bookingsData),
   pendingBookings |->
     Cardinality({b \in bookingsData : b.status = "pending"}),
   totalRevenue |->
     SumTotalPrice({b \in bookingsData : b.status = "accepted"})]

\* the statistics fetchDashboardData computes from the rows it fetched
Stats(listingsData, bookingsData) ==
  [totalListings |-> Cardinality(listingsData),
   totalBookings |-> Cardinality(bookingsData),
   pendingBookings |->
     Cardinality({b \in bookingsData : b.status = "pending"}),
   totalRevenue |-> SumTotalPrice(bookingsData)]

\* faulty variant: the bookings query of a subadmin is not restricted to its
\* listings
DashboardData_Mut(uid, bs) ==
  LET listingsData ==
        {l \in listings : /\ ListingsSelectUsing(uid, l)
                          /\ (isSubAdmin(uid) => l.owner_id = uid)}
      listingIds == {l.id : l \in listingsData}
      bookingsData ==
        {b \in SelectBookings(uid, bs) :
           \E l \in listings :
             l.id = b.listing_id /\ ListingsSelectUsing(uid, l)}
  IN  [loaded |-> TRUE,
       listings |-> listingIds,
       bookings |-> bookingsData,
       stats |-> Stats(listingsData, bookingsData)]

\* what fetchDashboardData stores for principal uid when the bookings table
\* holds rows bs: the two queries and the statistics computed from them
DashboardData(uid, bs) ==
  LET listingsData ==
        {l \in listings : /\ ListingsSelectUsing(uid, l)
                          /\ (isSubAdmin(uid) => l.owner_id = uid)}
      listingIds == {l.id : l \in listingsData}
      bookingsData ==
        {b \in SelectBookings(uid, bs) :
           /\ \E l \in listings :
                l.id = b.listing_id /\ ListingsSelectUsing(uid, l)
           /\ (isSubAdmin(uid) => b.listing_id \in listingIds)}
  IN  [loaded |-> TRUE,
       listings |-> listingIds,
       bookings |-> bookingsData,
       stats |-> Stats(listingsData, bookingsData)]

\* the page fetches only for a signed-in admin or subadmin
fetchDashboardData(uid) ==
  /\ uid \in authUsers
  /\ isAdmin(uid) \/ isSubAdmin(uid)
  /\ dash' = [dash EXCEPT ![uid] = DashboardData(uid, bookings)]
  /\ UNCHANGED <<authUsers, profiles, user_roles, listings, bookings,
                 nextListingId, nextBookingId, detail, req, last>>

\* Accept or Reject is clicked: the buttons are rendered for the bookings
\* the page holds as pending; the update request is sent and awaited
\* (one request in flight per principal)
handleBookingAction(uid, bookingId, status) ==
  /\ dash[uid].loaded
  /\ \E b \in dash[uid].bookings : b.id = bookingId /\ b.status = "pending"
  /\ req[uid].state # "sent"
  /\ req' = [req EXCEPT ![uid] =
               [state |-> "sent", id |-> bookingId, status |-> status,
                \* the stored status when the call was made
                stored |-> {b.status : b \in {x \in bookings : x.id = bookingId}}]]
  /\ UNCHANGED <<authUsers, profiles, user_roles, listings, bookings,
                 nextListingId, nextBookingId, dash, detail, last>>

\* the awaited update executes and returns: an error is thrown and logged,
\* otherwise the dashboard data is fetched again
handleBookingActionReturns(uid) ==
  /\ req[uid].state = "sent"
  /\ UpdateBooking(uid, req[uid].id, [status |-> req[uid].status])
  /\ req' = [req EXCEPT ![uid] =
               [state |-> "done", id |-> req[uid].id,
                status |-> req[uid].status, stored |-> req[uid].stored,
                err |-> last'.err]]
  /\ dash' = IF last'.err = NoError
             THEN [dash EXCEPT ![uid] = DashboardData(uid, bookings')]
             ELSE dash
  /\ UNCHANGED <<authUsers, profiles, user_roles, listings,
                 nextListingId, nextBookingId, detail>>

\* --------------------------------------------------- CreateListing page
\* parseFloat of the price field
parseFloat(s) ==
  CASE s = "100" -> 100
    [] s = "50" -> 50
    [] s = "0" -> 0

parseInt(s) ==
  CASE s = "1" -> 1
    [] s = "2" -> 2

\* the DATE a 'YYYY-MM-DD' string of a date input is stored as (a day number)
ToDate(s) ==
  CASE s = "2024-01-01" -> 1
    [] s = "2024-01-02" -> 2
    [] s = "2024-01-03" -> 3

\* the toast of a form submitted with a required field empty
ValidationError == "Please fill in all required fields"

\* faulty variant: the title is not among the required fields
RequiredMissing_Mut(formData) ==
  formData.type = "" \/ formData.location = "" \/ formData.price = ""

\* !formData.type || !formData.title || !formData.location || !formData.price
RequiredMissing(formData) ==
  \/ formData.type = ""
  \/ formData.title = ""
  \/ formData.location = ""
  \/ formData.price = ""

\* a column of the inserted row; a null value leaves the column NULL, which
\* is the column being absent from the row
Column(c, v, isNull) == IF isNull THEN <<>> ELSE c :> v

\* faulty variant: empty optional inputs are sent as they are
listingData_Mut(user, formData) ==
  [type |-> formData.type, title |-> formData.title,
   location |-> formData.location, price |-> parseFloat(formData.price),
   owner_id |-> user, is_active |-> TRUE]
  @@ ("description" :> formData.description)
  @@ ("image_url" :> formData.image_url)
  @@ Column("max_guests",
            IF formData.max_guests = "" THEN 0
            ELSE parseInt(formData.max_guests), formData.max_guests = "")
  @@ Column("available_from",
            IF formData.available_from = "" THEN 0
            ELSE ToDate(formData.available_from), formData.available_from = "")
  @@ Column("available_to",
            IF formData.available_to = "" THEN 0
            ELSE ToDate(formData.available_to), formData.available_to = "")
  @@ ("amenities" :> formData.amenities)

\* listingData of handleSubmit; formData.amenities stands for the amenities
\* state; x || null turns '' into null
listingData(user, formData) ==
  [type |-> formData.type, title |-> formData.title,
   location |-> formData.location, price |-> parseFloat(formData.price),
   owner_id |-> user, is_active |-> TRUE]
  @@ Column("description", formData.description, formData.description = "")
  @@ Column("image_url", formData.image_url, formData.image_url = "")
  @@ Column("max_guests",
            IF formData.max_guests = "" THEN 0
            ELSE parseInt(formData.max_guests), formData.max_guests = "")
  @@ Column("available_from",
            IF formData.available_from = "" THEN 0
            ELSE ToDate(formData.available_from), formData.available_from = "")
  @@ Column("available_to",
            IF formData.available_to = "" THEN 0
            ELSE ToDate(formData.available_to), formData.available_to = "")
  @@ Column("amenities", formData.amenities, Len(formData.amenities) = 0)

\* faulty variant: the row is inserted inactive
handleSubmit_Mut(user, formData) ==
  /\ user \in authUsers
  /\ isAdmin(user) \/ isSubAdmin(user)
  /\ IF RequiredMissing(formData)
     THEN /\ last' = Response("handleSubmit", user, 0, NULL,
                              ValidationError, {})
          /\ UNCHANGED <<listings, nextListingId>>
     ELSE InsertListing(user,
            [listingData(user, formData) EXCEPT !.is_active = FALSE])
  /\ UNCHANGED <<authUsers, profiles, user_roles, bookings, nextBookingId,
                 dash, detail, req>>

\* handleSubmit: the form is rendered only past the role gate; with a
\* required field empty the toast is shown and nothing is sent; otherwise
\* the row is inserted with the caller as owner
handleSubmit(user, formData) ==
  /\ user \in authUsers
  /\ isAdmin(user) \/ isSubAdmin(user)
  /\ IF RequiredMissing(formData)
     THEN /\ last' = Response("handleSubmit", user, 0, NULL,
                              ValidationError, {})
          /\ UNCHANGED <<listings, nextListingId>>
     ELSE InsertListing(user, listingData(user, formData))
  /\ UNCHANGED <<authUsers, profiles, user_roles, bookings, nextBookingId,
                 dash, detail, req>>

\* ------------------------------------------- direct calls of the data API
\* The data API is reachable by every authenticated principal with any
\* payload; the policies are its only gate.
BookingPayloads ==
  LET base == [user_id : Users, listing_id : 1..MaxListings,
               check_in : {1}, check_out : {2}, total_price : {100}]
      WithStatus(p, s) == [c \in (DOMAIN p) \cup {"status"} |->
                             IF c = "status" THEN s ELSE p[c]]
  IN  base \cup {WithStatus(p, "accepted") : p \in base}

BookingPatches ==
  [status : booking_status] \cup [admin_notes : {"note"}]
    \cup [total_price : {0}]

ListingPayloads ==
  [owner_id : Users, type : {"hotel"}, title : {"t"}, location : {"x"},
   price : {100}]

ListingPatches ==
  [is_active : BOOLEAN] \cup [owner_id : Users] \cup [price : {50}]

ApiInsertBooking(uid, payload) ==
  /\ uid \in authUsers
  /\ InsertBooking(uid, payload)
  /\ UNCHANGED <<authUsers, profiles, user_roles, listings, nextListingId,
                 dash, detail, req>>

ApiUpdateBooking(uid, id, patch) ==
  /\ uid \in authUsers
  /\ UpdateBooking(uid, id, patch)
  /\ UNCHANGED <<authUsers, profiles, user_roles, listings, nextListingId,
                 nextBookingId, dash, detail, req>>

ApiSelectBookings(uid) ==
  /\ uid \in authUsers
  /\ last' = Response("selectBookings", uid, 0, NULL, NoError,
                      {b.id : b \in SelectBookings(uid, bookings)})
  /\ UNCHANGED <<authUsers, profiles, user_roles, listings, bookings,
                 nextListingId, nextBookingId, dash, detail, req>>

ApiSelectListings(uid) ==
  /\ uid \in authUsers
  /\ last' = Response("selectListings", uid, 0, NULL, NoError,
                      {l.id : l \in SelectListings(uid)})
  /\ UNCHANGED <<authUsers, profiles, user_roles, listings, bookings,
                 nextListingId, nextBookingId, dash, detail, req>>

ApiInsertListing(uid, payload) ==
  /\ uid \in authUsers
  /\ InsertListing(uid, payload)
  /\ UNCHANGED <<authUsers, profiles, user_roles, bookings, nextBookingId,
                 dash, detail, req>>

ApiUpdateListing(uid, id, patch) ==
  /\ uid \in authUsers
  /\ UpdateListing(uid, id, patch)
  /\ UNCHANGED <<authUsers, profiles, user_roles, bookings, nextListingId,
                 nextBookingId, dash, detail, req>>

ApiDeleteListing(uid, id) ==
  /\ uid \in authUsers
  /\ DeleteListing(uid, id)
  /\ UNCHANGED <<authUsers, profiles, user_roles, nextListingId,
                 nextBookingId, dash, detail, req>>

ApiInsertProfile(uid, payload) ==
  /\ uid \in authUsers
  /\ InsertProfile(uid, payload)
  /\ UNCHANGED <<authUsers, user_roles, listings, bookings, nextListingId,
                 nextBookingId, dash, detail, req>>

ApiInsertRole(uid, target, role) ==
  /\ uid \in authUsers
  /\ InsertRole(uid, target, role)
  /\ UNCHANGED <<authUsers, profiles, listings, bookings, nextListingId,
                 nextBookingId, dash, detail, req>>

ApiDeleteRole(uid, target, role) ==
  /\ uid \in authUsers
  /\ DeleteRole(uid, target, role)
  /\ UNCHANGED <<authUsers, profiles, listings, bookings, nextListingId,
                 nextBookingId, dash, detail, req>>

\* first authentication of principal u: the identity provider inserts the
\* auth.users row and the trigger provisions profile and default role
SignUp(u, email) ==
  LET new == [id |-> u, email |-> email]
  IN  /\ u \notin authUsers
      /\ authUsers' = IF handle_new_user_error(new) = NoError
                      THEN authUsers \cup {u} ELSE authUsers
      /\ handle_new_user(new)
      /\ last' = Response("signUp", u, 0, u, handle_new_user_error(new), {})
  /\ UNCHANGED <<listings, bookings, nextListingId, nextBookingId,
                 dash, detail, req>>

\* ---------------------------------------------------------- initial states
\* the profile rows of principals who signed up in the order u1, u2, u3
UserNo == [u \in Users |-> CASE u = "u1" -> 1 [] u = "u2" -> 2 [] u = "u3" -> 3]

Profiled(us) == {[id |-> UserNo[u], user_id |-> u, email |-> "e"] : u \in us}

Provisioned(us) == {[user_id |-> u, role |-> "user"] : u \in us}

NoRequest == [state |-> "idle"]

NoDash ==
  [loaded |-> FALSE, listings |-> {}, bookings |-> {},
   stats |-> [totalListings |-> 0, totalBookings |-> 0,
              pendingBookings |-> 0, totalRevenue |-> 0]]

NoResponse == Response("none", NULL, 0, NULL, NoError, {})

\* u1 was made admin and u2 subadmin by the operator of the database
SeedRoles ==
  {[user_id |-> "u1", role |-> "admin"],
   [user_id |-> "u2", role |-> "subadmin"]}

SeedListings ==
  {[id |-> 1, owner_id |-> "u2", type |-> "hotel", title |-> "t",
    location |-> "x", price |-> 100, is_active |-> TRUE],
   [id |-> 2, owner_id |-> "u1", type |-> "hotel", title |-> "t",
    location |-> "x", price |-> 50, is_active |-> TRUE]}

Idle ==
  /\ dash = [u \in Users |-> NoDash]
  /\ detail = [u \in Users |-> NoListing]
  /\ req = [u \in Users |-> NoRequest]
  /\ last = NoResponse

\* ------------------------------------------- Spec: the bookings data API
\* every principal has signed up; u1 and u2 have published one listing each;
\* the listings do not change, so the row a ListingDetail page holds is the
\* row fetchListing returns
Init ==
  /\ authUsers = Users
  /\ profiles = Profiled(Users)
  /\ user_roles = Provisioned(Users) \cup SeedRoles
  /\ listings = SeedListings
  /\ bookings = {}
  /\ nextListingId = 3
  /\ nextBookingId = 1
  /\ Idle

Next ==
  \/ \E u \in Users, l \in listings :
       l \in fetchListing(u, l.id) /\ handleBooking(u, l, 1, 2, 1, NULL)
  \/ \E u \in Users, p \in BookingPayloads : ApiInsertBooking(u, p)
  \/ \E u \in Users, id \in 1..MaxBookings, p \in BookingPatches :
       ApiUpdateBooking(u, id, p)
  \/ \E u \in Users : ApiSelectBookings(u)

Spec == Init /\ [][Next]_vars

\* ------------------------------- SpecDecide: the dashboards of the staff
NextDecide ==
  \/ \E u \in Users, l \in listings :
       l \in fetchListing(u, l.id) /\ handleBooking(u, l, 1, 2, 1, NULL)
  \/ \E u \in Users : fetchDashboardData(u)
  \/ \E u \in Users, id \in 1..MaxBookings, s \in {"accepted", "rejected"} :
       handleBookingAction(u, id, s)
  \/ \E u \in Users : handleBookingActionReturns(u)

SpecDecide == Init /\ [][NextDecide]_vars

\* ------------------------------------ SpecListings: the listings data API
InitListings ==
  /\ authUsers = Users
  /\ profiles = Profiled(Users)
  /\ user_roles = Provisioned(Users) \cup SeedRoles
  /\ listings = {}
  /\ bookings = {}
  /\ nextListingId = 1
  /\ nextBookingId = 1
  /\ Idle

ListingForms ==
  [type : {"hotel"}, title : {"t"}, location : {"x"}, price : {"100", ""},
   description : {""}, image_url : {""}, max_guests : {""},
   available_from : {""}, available_to : {""}, amenities : {<<>>}]

NextListings ==
  \/ \E u \in Users, f \in ListingForms : handleSubmit(u, f)
  \/ \E u \in Users, p \in ListingPayloads : ApiInsertListing(u, p)
  \/ \E u \in Users, id \in 1..MaxListings, p \in ListingPatches :
       ApiUpdateListing(u, id, p)
  \/ \E u \in Users, id \in 1..MaxListings : ApiDeleteListing(u, id)
  \/ \E u \in Users : ApiSelectListings(u)

SpecListings == InitListings /\ [][NextListings]_vars

\* ----------------------------------------------- SpecRoles: the role store
\* u1 has signed up and was made admin by the operator of the database
\* the email of a new auth.users row: NULL for a sign-up without email
Emails == {"e", NULL}

InitRoles ==
  /\ authUsers = {"u1"}
  /\ profiles = Profiled({"u1"})
  /\ user_roles = Provisioned({"u1"}) \cup {[user_id |-> "u1", role |-> "admin"]}
  /\ listings = {}
  /\ bookings = {}
  /\ nextListingId = 1
  /\ nextBookingId = 1
  /\ Idle

NextRoles ==
  \/ \E u \in Users, e \in Emails : SignUp(u, e)
  \/ \E u \in Users, p \in [user_id : Users, email : Emails] :
       ApiInsertProfile(u, p)
  \/ \E u \in Users, t \in Users, r \in app_role : ApiInsertRole(u, t, r)
  \/ \E u \in Users, t \in Users, r \in app_role : ApiDeleteRole(u, t, r)

SpecRoles == InitRoles /\ [][NextRoles]_vars

\* ================================================================ claims
\* the effective role of a principal: the highest-priority role assigned,
\* user when none is
effectiveRole(uid) ==
  IF [user_id |-> uid, role |-> "admin"] \in user_roles THEN "admin"
  ELSE IF [user_id |-> uid, role |-> "subadmin"] \in user_roles THEN "subadmin"
  ELSE "user"

\* actor owns the listing of booking b or is admin
MayDecide(actor, b) ==
  \/ \E l \in listings : l.id = b.listing_id /\ l.owner_id = actor
  \/ effectiveRole(actor) = "admin"

\* actor requested booking b, owns its listing or is admin
MayReadBooking(actor, b) ==
  \/ actor = b.user_id
  \/ \E l \in listings : l.id = b.listing_id /\ l.owner_id = actor
  \/ effectiveRole(actor) = "admin"

Terminal == {"accepted", "rejected"}

C2_TerminalStatusNeverChanges ==
  [][\A b \in bookings, n \in bookings' :
       (b.id = n.id /\ b.status \in Terminal) => n.status = b.status]_vars

\* C3 as stated: of two decide calls with different outcomes made by two
\* actors on the same booking while it is stored as pending, exactly one
\* succeeds and the other fails with Conflict.
C3_ExactlyOneConcurrentDecideSucceeds ==
  \A p \in Users, q \in Users :
    (/\ p # q
     /\ req[p].state = "done" /\ req[q].state = "done"
     /\ req[p].id = req[q].id
     /\ req[p].status # req[q].status
     /\ req[p].stored = {"pending"} /\ req[q].stored = {"pending"})
    => \/ req[p].err = NoError /\ req[q].err = "Conflict"
       \/ req[q].err = NoError /\ req[p].err = "Conflict"

C5_ReadReturnsExactlyOwnOwnedOrAll ==
  last.op = "selectBookings" =>
    last.rows = {b.id : b \in {x \in bookings : MayReadBooking(last.actor, x)}}

\* C5 witness: a principal who is neither requester, owner nor admin has
\* read while a booking exists, and got nothing
C5_Witness ==
  /\ last.op = "selectBookings"
  /\ last.rows = {}
  /\ bookings # {}
  /\ \A b \in bookings : ~MayReadBooking(last.actor, b)

\* C6: a booking insert succeeds only when the row's requester is the
\* caller, and then the new row carries the caller as requester; an insert
\* naming another requester fails and creates no row; every authenticated
\* principal, whatever its role, can insert a booking for itself on an
\* existing listing.
C6_InsertOnlyForOneself ==
  [][last'.op = "insertBooking" =>
       /\ last'.err = NoError =>
            /\ last'.user_id = last'.actor
            /\ \E n \in bookings' \ bookings :
                 n.id = last'.id /\ n.user_id = last'.actor
       /\ last'.user_id # last'.actor =>
            (last'.err = PermissionDenied /\ bookings' = bookings)
       /\ \A u \in authUsers, p \in BookingPayloads :
            (p.user_id = u /\ \E l \in listings : l.id = p.listing_id) =>
              InsertBookingError(u, RowOf(nextBookingId, p, BookingDefaults))
                = NoError]_vars

\* C6 witness: a principal whose effective role is user has inserted a
\* booking, which names it as requester
C6_Witness ==
  /\ last.op = "insertBooking"
  /\ last.err = NoError
  /\ effectiveRole(last.actor) = "user"
  /\ \E b \in bookings : b.id = last.id /\ b.user_id = last.actor

\* C7 as stated: every booking that comes into existence is pending.
C7_NewBookingIsPending ==
  [][\A n \in bookings' :
       (~\E b \in bookings : b.id = n.id) => n.status = "pending"]_vars

\* C8 as stated: an update of a booking changes only status and admin_notes.
C8_UpdateChangesOnlyStatusAndNotes ==
  [][last'.op = "updateBooking" =>
       \A b \in bookings, n \in bookings' :
         b.id = n.id =>
           \A c \in (DOMAIN b) \ {"status", "admin_notes"} : n[c] = b[c]]_vars

\* C9: an update or delete of a listing by a principal who neither owns it
\* nor is admin leaves the listing as it was.
C9_OnlyOwnerOrAdminWritesListing ==
  [][last'.op \in {"updateListing", "deleteListing"} =>
       \A l \in listings :
         (/\ l.id = last'.id
          /\ l.owner_id # last'.actor
          /\ effectiveRole(last'.actor) # "admin") => l \in listings']_vars

\* C9 witness: a principal who neither owns a listing nor is admin has
\* called update or delete on it
C9_Witness ==
  /\ last.op \in {"updateListing", "deleteListing"}
  /\ last.rows = {}
  /\ \E l \in listings :
       /\ l.id = last.id
       /\ l.owner_id # last.actor
       /\ effectiveRole(last.actor) # "admin"

\* C10 as stated: a listing row comes into existence only by a call of a
\* principal whose effective role is admin or subadmin.
C10_OnlyStaffCreatesListings ==
  [][\A n \in listings' :
       (~\E l \in listings : l.id = n.id) =>
         effectiveRole(last'.actor) \in {"admin", "subadmin"}]_vars

\* ------------------------------------ SpecBrowse: reading the listings
\* the two seeded listings are switched on and off by whoever the policies
\* allow, while principals open the home page, a listing page, the
\* dashboard, or query the table
NextBrowse ==
  \/ \E u \in Users \cup {NULL} : fetchListings(u)
  \/ \E u \in Users, id \in 1..MaxListings : ListingDetail(u, id)
  \/ \E u \in Users : ApiSelectListings(u)
  \/ \E u \in Users : fetchDashboardData(u)
  \/ \E u \in Users, id \in 1..MaxListings, p \in [is_active : BOOLEAN] :
       ApiUpdateListing(u, id, p)

SpecBrowse == Init /\ [][NextBrowse]_vars

\* C11: a read of the listings by a principal returns exactly the listings
\* that are active, that the principal owns, and all of them when it is
\* admin; an inactive listing is not returned to anyone else.
C11_ReadReturnsActiveOwnedOrAll ==
  last.op = "selectListings" =>
    last.rows = {l.id : l \in {x \in listings :
                                 \/ x.is_active
                                 \/ x.owner_id = last.actor
                                 \/ effectiveRole(last.actor) = "admin"}}

\* C11 witness: a principal who is not admin has read while an inactive
\* listing of another owner exists, and did not get it
C11_Witness ==
  /\ last.op = "selectListings"
  /\ effectiveRole(last.actor) # "admin"
  /\ \E l \in listings :
       ~l.is_active /\ l.owner_id # last.actor /\ l.id \notin last.rows

\* a principal who may read every state of listing l: its owner or an admin
MayReadInactive(uid, l) == l.owner_id = uid \/ effectiveRole(uid) = "admin"

\* C12 as stated: whenever the owner of a listing or an admin opens the
\* listing's page, the single-listing read succeeds, also when the listing
\* is inactive.
C12_DetailReadByOwnerOrAdminSucceeds ==
  last.op = "fetchListing" =>
    \A l \in listings :
      l.id = last.id /\ MayReadInactive(last.actor, l) =>
        last.err = NoError /\ last.rows = {l.id}

\* C12: the home page's list never includes an inactive listing; a read of
\* the table or of the dashboard by the owner or by an admin includes the
\* listing whether it is active or not; the listing page's read succeeds
\* exactly when the listing is active, and fails with no row otherwise, for
\* the owner and the admin as for anyone.
C12_InactiveHiddenFromListAndDetailOnly ==
  /\ last.op = "fetchListings" =>
       last.rows = {l.id : l \in {x \in listings : x.is_active}}
  /\ last.op = "selectListings" =>
       \A l \in listings : MayReadInactive(last.actor, l) => l.id \in last.rows
  /\ \A u \in Users : dash[u].loaded =>
       \A l \in listings : l.owner_id = u => l.id \in dash[u].listings
  /\ last.op = "fetchListing" =>
       /\ last.err \in {NoError, NoRows}
       /\ last.err = NoError <=>
            \E l \in listings : l.id = last.id /\ l.is_active
       /\ last.err = NoRows => detail[last.actor] = NoListing

\* C12 witness: the owner of an inactive listing opened its page and got no
\* row
C12_Witness ==
  /\ last.op = "fetchListing"
  /\ last.err = NoRows
  /\ \E l \in listings :
       l.id = last.id /\ ~l.is_active /\ l.owner_id = last.actor

\* the roles assigned to a principal
RolesOf(uid) == {r.role : r \in {x \in user_roles : x.user_id = uid}}

\* C13: for every principal holding at least one role, get_user_role
\* returns admin if admin is among its roles, else subadmin if subadmin is,
\* else user; the first row of the ordering is unique (no two assigned roles
\* share a rank), so the result is a function of the set of assignments.
C13_HighestPriorityRole ==
  \A u \in Users :
    RolesOf(u) # {} =>
      /\ get_user_role(u) = effectiveRole(u)
      /\ get_user_role(u) \in RolesOf(u)
      /\ \A r \in RolesOf(u) \ {get_user_role(u)} :
           RoleRank(get_user_role(u)) < RoleRank(r)

\* C13 witness: a principal was just given a second role, holds exactly
\* subadmin and user, and get_user_role returns subadmin
C13_Witness ==
  /\ last.op = "insertRole"
  /\ last.err = NoError
  /\ RolesOf(last.user_id) = {"subadmin", "user"}
  /\ get_user_role(last.user_id) = "subadmin"

\* C14 as stated: for every signed-up principal with no role assignment,
\* get_user_role returns user.
C14_NoAssignmentYieldsUser ==
  \A u \in authUsers : RolesOf(u) = {} => get_user_role(u) = "user"

\* the profile rows of a principal
ProfilesOf(uid) == {p \in profiles : p.user_id = uid}

\* C18: a sign-up that succeeds adds exactly one profiles row and exactly
\* the row (principal, user) to user_roles, both for the new principal; a
\* sign-up that fails adds neither and does not create the principal; and
\* at all times a principal has at most one profiles row, every signed-up
\* principal exactly one.
C18_ProvisioningIsAtomic ==
  /\ [](\A u \in Users :
          /\ Cardinality(ProfilesOf(u)) <= 1
          /\ u \in authUsers <=> ProfilesOf(u) # {})
  /\ [][last'.op = "signUp" =>
          IF last'.err = NoError
          THEN /\ authUsers' = authUsers \cup {last'.actor}
               /\ \E p \in profiles' :
                    /\ p.user_id = last'.actor
                    /\ p \notin profiles
                    /\ profiles' = profiles \cup {p}
               /\ [user_id |-> last'.actor, role |-> "user"] \notin user_roles
               /\ user_roles' =
                    user_roles \cup {[user_id |-> last'.actor, role |-> "user"]}
          ELSE /\ authUsers' = authUsers
               /\ profiles' = profiles
               /\ user_roles' = user_roles]_vars

\* C18 witness: a principal has just signed up and holds one profile row and
\* the user role
C18_Witness ==
  /\ last.op = "signUp"
  /\ last.err = NoError
  /\ Cardinality(ProfilesOf(last.actor)) = 1
  /\ RolesOf(last.actor) = {"user"}

\* the role row an insertRole request carried
RequestedRole(r) ==
  [user_id |-> r.user_id,
   role |-> CHOOSE x \in app_role : RoleRank(x) = r.id]

\* C19 as stated: inserting the default role again for a principal that
\* already holds (principal, user) succeeds without error and leaves the
\* role store unchanged.
C19_ReinsertSucceedsSilently ==
  [][/\ last'.op = "insertRole"
     /\ RequestedRole(last').role = "user"
     /\ RequestedRole(last') \in user_roles
     => last'.err = NoError /\ user_roles' = user_roles]_vars

\* C19: inserting a (principal, role) pair the store already holds is
\* refused, with the unique violation when the caller is admin and with
\* PermissionDenied otherwise, and leaves the role store unchanged; a
\* sign-up is never repeated for a principal that exists; so the store
\* never gains a pair it already has.
C19_ReinsertIsRefusedStoreUnchanged ==
  [][/\ (/\ last'.op = "insertRole"
         /\ RequestedRole(last') \in user_roles
         => /\ user_roles' = user_roles
            /\ last'.err = IF effectiveRole(last'.actor) = "admin"
                           THEN UniqueViolation ELSE PermissionDenied)
     /\ (last'.op = "signUp" /\ last'.err = NoError
         => [user_id |-> last'.actor, role |-> "user"] \notin user_roles)
    ]_vars

\* C19 witness: the admin inserted (principal, user) for a principal that
\* holds it and got the unique violation
C19_Witness ==
  /\ last.op = "insertRole"
  /\ last.err = UniqueViolation
  /\ RequestedRole(last).role = "user"
  /\ RequestedRole(last) \in user_roles
  /\ last.user_id # last.actor

\* the listing rows a step brings into existence
NewListings == {n \in listings' : ~\E l \in listings : l.id = n.id}

MaxDate == 2
MaxGuests == 2

Dates == 1..MaxDate

\* the principals who open listing pages
Requesters == {"u3"}

\* listing 1 takes at most 1 guest; listing 2 has max_guests NULL (the
\* column is absent from the row)
SubmitListings ==
  {[id |-> 1, owner_id |-> "u2", type |-> "hotel", title |-> "t",
    location |-> "x", price |-> 100, is_active |-> TRUE, max_guests |-> 1],
   [id |-> 2, owner_id |-> "u1", type |-> "trip", title |-> "t",
    location |-> "x", price |-> 50, is_active |-> TRUE]}

\* the values the guests state can hold when Book is clicked: the number
\* input is rendered when max_guests is set, and its min and max are not
\* enforced on the click; otherwise the state keeps useState(1)
GuestInputs(listing) ==
  IF "max_guests" \in DOMAIN listing THEN 0..MaxGuests ELSE {1}

\* the listing state of the page of u; a visitor who is not signed in is
\* taken to hold none
Held(u) ==
  IF u # NULL /\ detail[u].loaded THEN detail[u].listing ELSE NoListing

\* a booking sent to the data API with a total of the caller's choosing
SubmitPayloads ==
  [user_id : Requesters, listing_id : {1}, check_in : {1}, check_out : {2},
   total_price : {0 - 100}]

InitSubmit ==
  /\ authUsers = Users
  /\ profiles = Profiled(Users)
  /\ user_roles = Provisioned(Users) \cup SeedRoles
  /\ listings = SubmitListings
  /\ bookings = {}
  /\ nextListingId = 3
  /\ nextBookingId = 1
  /\ Idle

NextSubmit ==
  \/ \E u \in Requesters, id \in 1..MaxListings : ListingDetail(u, id)
  \/ \E u \in Requesters \cup {NULL} :
       \E checkIn \in Dates \cup {NoDate}, checkOut \in Dates \cup {NoDate} :
         \E guests \in GuestInputs(Held(u)) :
           handleBooking(u, Held(u), checkIn, checkOut, guests, NULL)
  \/ \E u \in Users, id \in 1..MaxListings, p \in [is_active : BOOLEAN] :
       ApiUpdateListing(u, id, p)
  \/ \E u \in Users, id \in 1..MaxListings : ApiDeleteListing(u, id)
  \/ \E u \in Requesters, p \in SubmitPayloads : ApiInsertBooking(u, p)

SpecSubmit == InitSubmit /\ [][NextSubmit]_vars

\* C15 as stated: every booking stored by the page has total_price equal to
\* the number of days from check_in to check_out times the price of its
\* listing.
C15_TotalIsDaysTimesPrice ==
  \A b \in bookings : \A l \in listings :
    l.id = b.listing_id =>
      b.total_price = (b.check_out - b.check_in) * l.price

\* C16 as stated: every stored booking has guests >= 1, and guests at most
\* the max_guests of its listing when that is set.
C16_GuestsWithinBounds ==
  \A b \in bookings :
    /\ b.guests >= 1
    /\ \A l \in listings :
         l.id = b.listing_id /\ "max_guests" \in DOMAIN l =>
           b.guests <= l.max_guests

\* C17 as stated: a booking row comes into existence only for a listing
\* that exists and is active at the moment the row is stored.
C17_NoBookingForInactiveListing ==
  [][\A b \in bookings' :
       (~\E o \in bookings : o.id = b.id) =>
         \E l \in listings : l.id = b.listing_id /\ l.is_active]_vars

\* ------------------------------------ SpecCreate: the CreateListing form
\* the values the form state can hold when it is submitted
\* (at most one of the required fields is empty; the optional part is
\* either a description with an amenity, or neither and an availability
\* window that starts after its end)
CreateForms ==
  {f \in [type : {"hotel", ""}, title : {"t", ""}, location : {"x", ""},
          price : {"100", ""}, description : {"d", ""}, image_url : {""},
          max_guests : {""}, available_from : {"2024-01-03", ""},
          available_to : {"2024-01-02"}, amenities : {<<"wifi">>, <<>>}] :
     /\ Cardinality({c \in {"type", "title", "location", "price"} :
                       f[c] = ""}) <= 1
     /\ f.description = "" <=> f.amenities = <<>>
     /\ f.description = "" <=> f.available_from # ""}

NextCreate ==
  \/ \E u \in Users, f \in CreateForms : handleSubmit(u, f)
  \/ \E u \in Users \cup {NULL} : fetchListings(u)

SpecCreate == InitListings /\ [][NextCreate]_vars

\* C21: a submit of the form with type, title, location or price empty
\* shows the validation error, sends no insert and leaves the listings as
\* they are.
C21_MissingRequiredFieldCreatesNothing ==
  [][\A f \in CreateForms :
       (\/ f.type = "" \/ f.title = "" \/ f.location = "" \/ f.price = "")
       /\ handleSubmit(last'.actor, f)
       => /\ last'.op = "handleSubmit"
          /\ last'.err = ValidationError
          /\ listings' = listings
          /\ nextListingId' = nextListingId]_vars

\* C21 witness: a form with a required field empty was submitted while a
\* listing exists
C21_Witness ==
  /\ last.op = "handleSubmit"
  /\ last.err = ValidationError
  /\ listings # {}

\* C22 as stated: every listing has price >= 0 and, when both availability
\* dates are set, available_from <= available_to.
C22_PriceAndWindowValid ==
  \A l \in listings :
    /\ l.price >= 0
    /\ {"available_from", "available_to"} \subseteq DOMAIN l =>
         l.available_from <= l.available_to

\* the rows the home page's query returns from the listings ls
ActiveOf(ls) == {l \in ls : l.is_active = TRUE}

\* form f was submitted in this step and the insert succeeded
CreatedBy(f) ==
  /\ f.type # "" /\ f.title # "" /\ f.location # "" /\ f.price # ""
  /\ handleSubmit(last'.actor, f)
  /\ last'.err = NoError

\* the required inputs and the set optional inputs of f are the values of n
SetInputsKept(f, n) ==
  /\ n.type = f.type /\ n.title = f.title /\ n.location = f.location
  /\ n.price = parseFloat(f.price)
  /\ f.description # "" => "description" \in DOMAIN n
                            /\ n.description = f.description
  /\ f.image_url # "" => "image_url" \in DOMAIN n
                          /\ n.image_url = f.image_url
  /\ f.amenities # <<>> => "amenities" \in DOMAIN n
                            /\ n.amenities = f.amenities
  /\ IF f.max_guests = "" THEN "max_guests" \notin DOMAIN n
     ELSE "max_guests" \in DOMAIN n /\ n.max_guests = parseInt(f.max_guests)
  /\ IF f.available_from = "" THEN "available_from" \notin DOMAIN n
     ELSE "available_from" \in DOMAIN n
            /\ n.available_from = ToDate(f.available_from)
  /\ IF f.available_to = "" THEN "available_to" \notin DOMAIN n
     ELSE "available_to" \in DOMAIN n
            /\ n.available_to = ToDate(f.available_to)

\* C23 as stated: the listing a successful create yields is returned by the
\* home page's query with exactly the input values, an empty description,
\* image reference and amenities list included.
C23_RoundTripExact ==
  [][\A f \in CreateForms :
       CreatedBy(f) =>
         \E n \in NewListings :
           /\ n \in ActiveOf(listings')
           /\ SetInputsKept(f, n)
           /\ "description" \in DOMAIN n /\ n.description = f.description
           /\ "image_url" \in DOMAIN n /\ n.image_url = f.image_url
           /\ "amenities" \in DOMAIN n /\ n.amenities = f.amenities]_vars

\* C23: the listing a successful create yields is returned by the home
\* page's query with the input values of the required fields and of every
\* optional field that was set; an empty description, image reference or
\* amenities list comes back as null, not as the empty value.
C23_RoundTripEmptyBecomesNull ==
  [][\A f \in CreateForms :
       CreatedBy(f) =>
         \E n \in NewListings :
           /\ n \in ActiveOf(listings')
           /\ SetInputsKept(f, n)
           /\ f.description = "" => "description" \notin DOMAIN n
           /\ f.image_url = "" => "image_url" \notin DOMAIN n
           /\ f.amenities = <<>> => "amenities" \notin DOMAIN n]_vars

\* C23 witness: a listing created with an empty description and an
\* availability window has just been returned by the home page's query
C23_Witness ==
  /\ last.op = "fetchListings"
  /\ \E l \in listings :
       /\ l.id \in last.rows
       /\ "description" \notin DOMAIN l
       /\ "available_from" \in DOMAIN l

\* the booking rows a step brings into existence
NewBookings == {n \in bookings' : ~\E b \in bookings : b.id = n.id}

\* C24: a submit that ends with an error (nobody signed in, no listing
\* held, a date missing, or the insert refused) leaves the bookings as they
\* were; and every booking row that comes into existence has a requester
\* who is signed up and both of its dates.
C24_FailedSubmitLeavesNoRow ==
  [][/\ (last'.op \in {"handleBooking", "insertBooking"}
           /\ last'.err # NoError)
        => bookings' = bookings /\ nextBookingId' = nextBookingId
     /\ \A n \in NewBookings :
          /\ last'.err = NoError
          /\ n.user_id \in authUsers
          /\ n.check_in # NoDate /\ n.check_out # NoDate]_vars

\* C24 witness: a submit without a check-out date has just been refused
C24_Witness ==
  /\ last.op = "handleBooking"
  /\ last.err = DatesRequired
  /\ last.actor \in authUsers
  /\ detail[last.actor].loaded

\* C27 as stated: every stored booking has total_price >= 0.
C27_TotalPriceNonNegative ==
  \A b \in bookings : b.total_price >= 0

\* the bookings on the listings principal uid owns, among the rows bs
OnOwnListings(uid, bs) ==
  {b \in bs : \E l \in listings : l.id = b.listing_id /\ l.owner_id = uid}

\* C25: whenever the dashboard of a principal fetches, the bookings it then
\* holds are all bookings when the principal is admin, and otherwise
\* exactly the bookings on listings the principal owns.
C25_DashboardBookingsOwnedOrAll ==
  [][\A u \in Users :
       fetchDashboardData(u) \/ dash'[u] # dash[u] =>
         dash'[u].bookings =
           IF effectiveRole(u) = "admin" THEN bookings'
           ELSE OnOwnListings(u, bookings')]_vars

\* C25 witness: a subadmin who requested a booking on another owner's
\* listing holds a fetched dashboard without it, and the admin holds a
\* dashboard with it
C25_Witness ==
  \E u \in Users, a \in Users, b \in bookings :
    /\ effectiveRole(u) = "subadmin"
    /\ effectiveRole(a) = "admin"
    /\ b.user_id = u
    /\ b \notin OnOwnListings(u, bookings)
    /\ dash[u].loaded /\ b \notin dash[u].bookings
    /\ dash[a].loaded /\ b \in dash[a].bookings

\* C30: the statistics a loaded dashboard shows agree with the rows it
\* holds: the counts of listings and bookings, the count of pending
\* bookings (at most the count of bookings), and as revenue the sum of
\* total_price over all the bookings held, whatever their status.
C30_StatsAgreeWithRows ==
  \A u \in Users :
    dash[u].loaded =>
      /\ dash[u].stats.totalListings = Cardinality(dash[u].listings)
      /\ dash[u].stats.totalBookings = Cardinality(dash[u].bookings)
      /\ dash[u].stats.pendingBookings =
           Cardinality({b \in dash[u].bookings : b.status = "pending"})
      /\ dash[u].stats.pendingBookings <= dash[u].stats.totalBookings
      /\ dash[u].stats.totalRevenue = SumTotalPrice(dash[u].bookings)

\* C30 witness: a dashboard holds a rejected booking and counts its price
\* in the revenue
C30_Witness ==
  \E u \in Users :
    /\ dash[u].loaded
    /\ \E b \in dash[u].bookings : b.status = "rejected" /\ b.total_price > 0
    /\ dash[u].stats.totalRevenue > 0
    /\ dash[u].stats.pendingBookings = 0

\* ------------------------- SpecOverlap: several bookings of one listing
\* u3 has booked listing 1 before
SeedBooking ==
  [id |-> 0, user_id |-> "u3", listing_id |-> 1, check_in |-> 1,
   check_out |-> 2, guests |-> 1, total_price |-> 100, status |-> "pending",
   special_requests |-> NULL, admin_notes |-> NULL]

InitOverlap ==
  /\ authUsers = Users
  /\ profiles = Profiled(Users)
  /\ user_roles = Provisioned(Users) \cup SeedRoles
  /\ listings = SeedListings
  /\ bookings = {SeedBooking}
  /\ nextListingId = 3
  /\ nextBookingId = 1
  /\ Idle

NextOverlap ==
  \/ \E u \in Users, l \in listings, checkOut \in {2, 3} :
       l \in fetchListing(u, l.id) /\ handleBooking(u, l, 1, checkOut, 1, NULL)
  \/ \E u \in Users, id \in 0..MaxBookings, s \in {"accepted", "rejected"} :
       ApiUpdateBooking(u, id, [status |-> s])
  \/ \E u \in Users : fetchBookings(u)

SpecOverlap == InitOverlap /\ [][NextOverlap]_vars

\* C26: the list fetchBookings returns to a principal holds exactly the
\* bookings that principal requested, each once, the newer before the older.
C26_MyBookingsOwnNewestFirst ==
  last.op = "fetchBookings" =>
    /\ {last.rows[i] : i \in 1..Len(last.rows)} =
         {b.id : b \in {x \in bookings : x.user_id = last.actor}}
    /\ \A i \in 1..Len(last.rows), j \in 1..Len(last.rows) :
         i < j => last.rows[i] > last.rows[j]

\* C26 witness: a principal got a list of two of its bookings
C26_Witness ==
  /\ last.op = "fetchBookings"
  /\ Len(last.rows) = 2

\* two bookings of one listing whose date ranges overlap
Overlapping(a, b) ==
  /\ a.id # b.id
  /\ a.listing_id = b.listing_id
  /\ a.check_in < b.check_out
  /\ b.check_in < a.check_out

\* C28: a submit by a signed-in principal for a listing that exists and is
\* active succeeds whatever bookings the listing already has, also when the
\* new booking overlaps one of them.
C28_SubmitIgnoresExistingBookings ==
  [][last'.op = "insertBooking" =>
       /\ last'.err = NoError
       /\ \E n \in NewBookings : n.id = last'.id]_vars

\* C28 witness: two overlapping bookings of one listing are both accepted
C28_Witness ==
  \E a \in bookings, b \in bookings :
    /\ Overlapping(a, b)
    /\ a.status = "accepted"
    /\ b.status = "accepted"

\* ------------------------------- SpecIntegrity: rows and their references
\* bookings sent to the data API, for listings that exist and that do not
IntegrityPayloads ==
  [user_id : Users, listing_id : 1..MaxListings, check_in : {1},
   check_out : {2}, total_price : {100}]

NextIntegrity ==
  \/ \E u \in Users, p \in ListingPayloads : ApiInsertListing(u, p)
  \/ \E u \in Users, p \in IntegrityPayloads : ApiInsertBooking(u, p)
  \/ \E u \in Users, id \in 1..MaxBookings, l \in 1..MaxListings :
       ApiUpdateBooking(u, id, [listing_id |-> l])
  \/ \E u \in Users, id \in 1..MaxListings : ApiDeleteListing(u, id)
  \/ \E u \in Users : DeleteUser(u)

SpecIntegrity == InitListings /\ [][NextIntegrity]_vars

\* C29: every booking references a listing that exists and a principal that
\* exists, every listing an owner that exists, every profile and role
\* assignment a principal that exists; so a deleted listing leaves no
\* booking, and a deleted principal no profile, role, listing or booking.
C29_ReferentialIntegrity ==
  /\ \A b \in bookings :
       /\ b.user_id \in authUsers
       /\ \E l \in listings : l.id = b.listing_id
  /\ \A l \in listings : l.owner_id \in authUsers
  /\ \A p \in profiles : p.user_id \in authUsers
  /\ \A r \in user_roles : r.user_id \in authUsers

\* C29 witness: a principal has just been deleted and bookings went with it
C29_Witness ==
  /\ last.op = "deleteUser"
  /\ last.rows # {}
  /\ last.user_id \notin authUsers
====
